---- MODULE Spec2Model ----
(***************************************************************************)
(* A model of llama-on-rust: the chat handler (src/web/handlers.rs), the   *)
(* session store it shares (src/main.rs) and the request assembly of       *)
(* LlamaModel (src/model/mod.rs).                                          *)
(*                                                                         *)
(* Strings are sequences of one-byte characters, so str::len is Len.       *)
(* usize is modelled as an unsigned word of UsizeBits bits: TLC's integers *)
(* are 32-bit, so the 64-bit word is scaled down and every quantity that   *)
(* the address space bounds (a string's length) is scaled with it.         *)
(***************************************************************************)
EXTENDS Integers, Sequences, FiniteSets, TLC

\* ------------------------------------------------------------------------
\* Bounds of the model
\* ------------------------------------------------------------------------
UsizeBits == 16
NumRequests == 2
MaxHistory == 3

\* ------------------------------------------------------------------------
\* Program constants
\* ------------------------------------------------------------------------
DEFAULT_MAX_CONTEXT_WINDOW == 4096
DEFAULT_SYSTEM_MESSAGE_RESERVE == 200
DEFAULT_RESPONSE_RESERVE == 500
DEFAULT_MIN_TOKENS == 100
DEFAULT_MAX_TOKENS == 4096
MIN_MESSAGE_SPACE == 100
HANDLER_DEFAULT_MAX_TOKENS == 512
CHARS_PER_TOKEN == 4

\* ------------------------------------------------------------------------
\* usize
\* ------------------------------------------------------------------------
UsizeMax == 2^UsizeBits - 1

Usize == 0..UsizeMax

\* a + b in usize: the wrapped value a release build computes, and whether
\* the sum left the word (a debug build panics there)
WrappingAdd(a, b) == (a + b) % (UsizeMax + 1)

AddOverflows(a, b) == a + b > UsizeMax

\* usize::saturating_sub
SaturatingSub(a, b) == IF a >= b THEN a - b ELSE 0

\* Option<T>
Some(x) == [some |-> TRUE, v |-> x]

NoneUsize == [some |-> FALSE, v |-> 0]

NoneUuid == [some |-> FALSE, v |-> ""]

UnwrapOr(o, d) == IF o.some THEN o.v ELSE d

\* ------------------------------------------------------------------------
\* Strings
\* ------------------------------------------------------------------------
USER_PREFIX == <<"u", "s", "e", "r", ":", " ">>

ASSISTANT_PREFIX == <<"a", "s", "s", "i", "s", "t", "a", "n", "t", ":", " ">>

PROMPT_SUFFIX == <<"\n", "\n", "P", "l", "e", "a", "s", "e", " ", "p", "r", "o", "v", "i", "d", "e", " ", "a", " ", "d", "e", "t", "a", "i", "l", "e", "d", " ", "a", "n", "d", " ", "c", "o", "m", "p", "r", "e", "h", "e", "n", "s", "i", "v", "e", " ", "a", "n", "s", "w", "e", "r", ".">>

\* a string of n filler characters
Pad(n) == [i \in 1..n |-> "x"]

\* str::starts_with
StartsWith(s, pat) == Len(s) >= Len(pat) /\ SubSeq(s, 1, Len(pat)) = pat

\* str::trim_start_matches: the pattern is removed from the front for as long
\* as the string starts with it
RECURSIVE TrimStartMatches(_, _)
TrimStartMatches(s, pat) ==
    IF Len(pat) > 0 /\ StartsWith(s, pat)
    THEN TrimStartMatches(SubSeq(s, Len(pat) + 1, Len(s)), pat)
    ELSE s

Reverse(s) == [i \in 1..Len(s) |-> s[Len(s) + 1 - i]]

\* ------------------------------------------------------------------------
\* LlamaModel::new
\* ------------------------------------------------------------------------
\* The environment: each variable is NoneUsize when unset or when it does not
\* parse as usize
Env(mcw, sys, resp, mn, mx) ==
    [MAX_CONTEXT_WINDOW |-> mcw, SYSTEM_MESSAGE_RESERVE |-> sys,
     RESPONSE_RESERVE |-> resp, MIN_TOKENS |-> mn, MAX_TOKENS |-> mx]

\* the five limits as read, before validation
ReadLimits(e) ==
    [max_context_window |-> UnwrapOr(e.MAX_CONTEXT_WINDOW, DEFAULT_MAX_CONTEXT_WINDOW),
     system_message_reserve |-> UnwrapOr(e.SYSTEM_MESSAGE_RESERVE, DEFAULT_SYSTEM_MESSAGE_RESERVE),
     response_reserve |-> UnwrapOr(e.RESPONSE_RESERVE, DEFAULT_RESPONSE_RESERVE),
     min_tokens |-> UnwrapOr(e.MIN_TOKENS, DEFAULT_MIN_TOKENS),
     max_tokens |-> UnwrapOr(e.MAX_TOKENS, DEFAULT_MAX_TOKENS)]

\* the outcome of LlamaModel::new on limits c, in a build with or without
\* overflow checks: "ok", "err" (an Err is returned) or "panic"
NewOutcome(c, checks) ==
    LET total_reserve == WrappingAdd(c.system_message_reserve, c.response_reserve)
    IN  IF c.min_tokens > c.max_tokens THEN "err"
        ELSE IF c.max_tokens > c.max_context_window THEN "err"
        ELSE IF checks /\ AddOverflows(c.system_message_reserve, c.response_reserve) THEN "panic"
        ELSE IF total_reserve >= c.max_context_window THEN "err"
        ELSE IF c.max_context_window - total_reserve < MIN_MESSAGE_SPACE THEN "err"
        ELSE "ok"

\* ------------------------------------------------------------------------
\* LlamaModel::estimate_tokens and LlamaModel::generate_response
\* ------------------------------------------------------------------------
Max(a, b) == IF a >= b THEN a ELSE b

\* the estimate without .max(1)
EstimateWithoutFloor(text) == Len(text) \div CHARS_PER_TOKEN

estimate_tokens(text) == Max(Len(text) \div CHARS_PER_TOKEN, 1)

\* the clamp without its upper branch
AdjustedWithoutCap(c, max_tokens) ==
    IF max_tokens < c.min_tokens THEN c.min_tokens ELSE max_tokens

adjusted_max_tokens(c, max_tokens) ==
    IF max_tokens < c.min_tokens THEN c.min_tokens
    ELSE IF max_tokens > c.max_tokens THEN c.max_tokens
    ELSE max_tokens

\* system_tokens + response_tokens + prompt_tokens, left to right
ReservedSumOverflows(c, prompt) ==
    \/ AddOverflows(c.system_message_reserve, c.response_reserve)
    \/ AddOverflows(WrappingAdd(c.system_message_reserve, c.response_reserve),
                    estimate_tokens(prompt))

ReservedSum(c, prompt) ==
    WrappingAdd(WrappingAdd(c.system_message_reserve, c.response_reserve),
                estimate_tokens(prompt))

\* the budget with the prompt's own tokens left out
AvailableIgnoringPrompt(c, prompt) ==
    SaturatingSub(c.max_context_window,
                  WrappingAdd(c.system_message_reserve, c.response_reserve))

available_history_tokens(c, prompt) ==
    SaturatingSub(c.max_context_window, ReservedSum(c, prompt))

\* the loop with continue in place of break: a turn that does not fit is
\* passed over and older turns are still tried
RECURSIVE TruncationLoopContinue(_, _, _, _, _)
TruncationLoopContinue(history, i, total_history_tokens, available, acc) ==
    IF i = 0 THEN acc
    ELSE LET message_tokens == estimate_tokens(history[i])
         IN  IF total_history_tokens + message_tokens > available
             THEN TruncationLoopContinue(history, i - 1, total_history_tokens, available, acc)
             ELSE TruncationLoopContinue(history, i - 1, total_history_tokens + message_tokens,
                                         available, Append(acc, history[i]))

\* The truncation loop, for message in history.iter().rev(): i is the index
\* of the turn under the cursor, acc the turns pushed so far (most recent
\* first). total_history_tokens + message_tokens stays far inside the word:
\* both are at most a quarter of the bytes held in memory.
RECURSIVE TruncationLoop(_, _, _, _, _)
TruncationLoop(history, i, total_history_tokens, available, acc) ==
    IF i = 0 THEN acc
    ELSE LET message_tokens == estimate_tokens(history[i])
         IN  IF total_history_tokens + message_tokens > available
             THEN acc
             ELSE TruncationLoop(history, i - 1, total_history_tokens + message_tokens,
                                 available, Append(acc, history[i]))

\* the retained turns without the reverse back to original order
TruncatedNotReversed(history, available) ==
    TruncationLoop(history, Len(history), 0, available, <<>>)

truncated_history(history, available) ==
    Reverse(TruncationLoop(history, Len(history), 0, available, <<>>))

Message(role, content) == [role |-> role, content |-> content]

\* the system message embeds the adjusted max_tokens in fixed text
SystemMessage(adjusted) == Message("system", <<"SYSTEM_TEXT", adjusted>>)

\* for message in truncated_history: the role prefix is parsed and
\* an entry with neither prefix is skipped
RECURSIVE HistoryMessages(_)
HistoryMessages(turns) ==
    IF turns = <<>> THEN <<>>
    ELSE LET message == Head(turns)
             rest == HistoryMessages(Tail(turns))
         IN  IF StartsWith(message, USER_PREFIX)
             THEN <<Message("user", TrimStartMatches(message, USER_PREFIX))>> \o rest
             ELSE IF StartsWith(message, ASSISTANT_PREFIX)
             THEN <<Message("assistant", TrimStartMatches(message, ASSISTANT_PREFIX))>> \o rest
             ELSE rest

\* what generate_response has computed when it sends the request, or the
\* panic of a build with overflow checks
NoPayload ==
    [panic |-> FALSE, adjusted_max_tokens |-> 0, available_history_tokens |-> 0,
     truncated_history |-> <<>>, messages |-> <<>>, max_tokens |-> 0]

BuildPayload(c, checks, prompt, max_tokens, history) ==
    IF checks /\ ReservedSumOverflows(c, prompt)
    THEN [NoPayload EXCEPT !.panic = TRUE,
                           !.adjusted_max_tokens = adjusted_max_tokens(c, max_tokens)]
    ELSE LET adjusted == adjusted_max_tokens(c, max_tokens)
             available == available_history_tokens(c, prompt)
             kept == truncated_history(history, available)
         IN  [panic |-> FALSE,
              adjusted_max_tokens |-> adjusted,
              available_history_tokens |-> available,
              truncated_history |-> kept,
              messages |-> <<SystemMessage(adjusted)>> \o HistoryMessages(kept)
                               \o <<Message("user", prompt)>>,
              max_tokens |-> adjusted]

\* ------------------------------------------------------------------------
\* State
\* ------------------------------------------------------------------------
VARIABLES
    env,              \* the process environment (token limits)
    overflow_checks,  \* the build: TRUE panics on integer overflow, FALSE wraps
    proc,             \* main: "starting", "serving", "exited", "panicked"
    model,            \* the LlamaModel's limits once constructed
    sessions,         \* AppState.sessions: session id -> Vec<String>
    origin,           \* history variable: per session, who pushed each turn
    lock,             \* the request holding the sessions MutexGuard, or 0
    poisoned,         \* the sessions mutex is poisoned
    pc,               \* where each chat request is
    req,              \* each request's ChatRequest
    session_id,       \* each request's resolved session id
    history_clone,    \* each request's snapshot of its session's history
    outbound,         \* what each request's generate_response sent upstream
    reply,            \* the Result generate_response returned to each request
    response,         \* the HttpResponse of each request
    gen               \* a direct call of generate_response: inputs and payload

vars == <<env, overflow_checks, proc, model, sessions, origin, lock, poisoned, pc,
          req, session_id, history_clone, outbound, reply, response, gen>>

handlerVars == <<sessions, origin, lock, poisoned, pc, req, session_id,
                 history_clone, outbound, reply, response>>

Requests == 1..NumRequests

Uuids == {"A", "B"}

NoModel ==
    [max_context_window |-> 0, system_message_reserve |-> 0, response_reserve |-> 0,
     min_tokens |-> 0, max_tokens |-> 0]

NoRequest == [message |-> <<>>, session_id |-> NoneUuid, max_tokens |-> NoneUsize]

NoReply == [kind |-> "none", content |-> <<>>]

NoResponse == [status |-> 0, body |-> <<>>]

NoGen ==
    [called |-> FALSE, prompt |-> <<>>, max_tokens |-> 0, history |-> <<>>,
     payload |-> NoPayload]

\* ------------------------------------------------------------------------
\* Inputs
\* ------------------------------------------------------------------------
\* environments of the serving model: the tightest window that start-up
\* accepts, and limits it rejects
DefaultEnv == Env(NoneUsize, NoneUsize, NoneUsize, NoneUsize, NoneUsize)

TightEnv == Env(Some(110), Some(4), Some(6), Some(10), Some(20))

RejectedEnv == Env(NoneUsize, NoneUsize, NoneUsize, Some(30), Some(20))

ServeEnvs == { TightEnv, RejectedEnv }

\* environments of the direct calls: also the defaults, limits at the top of
\* the word, reserves whose sum leaves the word, zeros, and rejected limits
GenEnvs ==
    ServeEnvs \cup
    { DefaultEnv,
      Env(Some(UsizeMax), Some(UsizeMax - 106), Some(6), Some(10), Some(20)),
      Env(Some(110), Some(UsizeMax), Some(1), Some(10), Some(20)),
      Env(Some(100), Some(0), Some(0), Some(0), Some(0)),
      Env(Some(50), Some(4), Some(6), Some(10), Some(20)),
      Env(NoneUsize, NoneUsize, NoneUsize, NoneUsize, Some(5000)) }

\* chat requests: a plain message, one that itself begins with a role
\* prefix, one long enough for two of them to overfill the tight window,
\* on either session or with no session id
LONG_MESSAGE == Pad(160)

ChatRequest(message, sid, mt) == [message |-> message, session_id |-> sid, max_tokens |-> mt]

ChatRequests ==
    { ChatRequest(<<"h", "i">>, Some("A"), NoneUsize),
      ChatRequest(LONG_MESSAGE, Some("A"), NoneUsize),
      ChatRequest(USER_PREFIX \o <<"h", "i">>, Some("B"), Some(5)),
      ChatRequest(<<"h", "i">>, NoneUuid, Some(5)) }

UpstreamContents == { <<"o", "k">> }

UpstreamErrors == { "transport", "status", "unparsable" }

\* turns of a directly passed history: well-formed ones of 1, 2 and 3 tokens
\* and one with no role prefix
GenTurns ==
    { USER_PREFIX \o <<"A">>,
      ASSISTANT_PREFIX \o <<"B">>,
      USER_PREFIX \o Pad(6),
      <<"n", "o", "t", "e">> }

RECURSIVE SeqsUpTo(_, _)
SeqsUpTo(S, n) ==
    IF n = 0 THEN { <<>> }
    ELSE LET shorter == SeqsUpTo(S, n - 1)
         IN  shorter \cup { Append(h, t) : h \in { x \in shorter : Len(x) = n - 1 }, t \in S }

GenHistories == SeqsUpTo(GenTurns, MaxHistory)

\* prompts of 1, 97, 98, 99, 100 and 101 estimated tokens
GenPrompts == { <<"H", "i">>, Pad(388), Pad(392), Pad(396), Pad(400), Pad(404) }

GenMaxTokens == { 0, 10, 15, 20, 21, 4096, UsizeMax }

\* ------------------------------------------------------------------------
\* Initial state
\* ------------------------------------------------------------------------
InitCommon ==
    /\ overflow_checks \in BOOLEAN
    /\ proc = "starting"
    /\ model = NoModel
    /\ sessions = [s \in {} |-> <<>>]
    /\ origin = [s \in {} |-> <<>>]
    /\ lock = 0
    /\ poisoned = FALSE
    /\ pc = [r \in Requests |-> "idle"]
    /\ req = [r \in Requests |-> NoRequest]
    /\ session_id = [r \in Requests |-> "A"]
    /\ history_clone = [r \in Requests |-> <<>>]
    /\ outbound = [r \in Requests |-> NoPayload]
    /\ reply = [r \in Requests |-> NoReply]
    /\ response = [r \in Requests |-> NoResponse]
    /\ gen = NoGen

Init == env \in ServeEnvs /\ InitCommon

InitGen == env \in GenEnvs /\ InitCommon

\* ------------------------------------------------------------------------
\* main: ModelManager::new, then the server
\* ------------------------------------------------------------------------
New ==
    /\ proc = "starting"
    /\ LET c == ReadLimits(env)
           outcome == NewOutcome(c, overflow_checks)
       IN  /\ proc' = CASE outcome = "ok" -> "serving"
                        [] outcome = "err" -> "exited"
                        [] OTHER -> "panicked"
           /\ model' = IF outcome = "ok" THEN c ELSE NoModel
    /\ UNCHANGED <<env, overflow_checks, gen>>
    /\ UNCHANGED handlerVars

\* ------------------------------------------------------------------------
\* A direct call of generate_response
\* ------------------------------------------------------------------------
GenerateResponse ==
    /\ proc = "serving"
    /\ ~gen.called
    /\ \E prompt \in GenPrompts, max_tokens \in GenMaxTokens, history \in GenHistories :
         gen' = [called |-> TRUE, prompt |-> prompt, max_tokens |-> max_tokens,
                 history |-> history,
                 payload |-> BuildPayload(model, overflow_checks, prompt, max_tokens, history)]
    /\ UNCHANGED <<env, overflow_checks, proc, model>>
    /\ UNCHANGED handlerVars

NextGen == New \/ GenerateResponse

SpecGen == InitGen /\ [][NextGen]_vars

\* ------------------------------------------------------------------------
\* handlers::chat, one action per step of a request r
\* ------------------------------------------------------------------------
\* HashMap insert or replace
Put(map, key, value) ==
    [k \in DOMAIN map \cup {key} |-> IF k = key THEN value ELSE map[k]]

\* sessions.entry(id).or_insert_with(Vec::new)
EntryOrEmpty(map, key) == IF key \in DOMAIN map THEN map[key] ELSE <<>>

\* the handler's default: MAX_TOKENS of the environment, else 512
default_max_tokens == UnwrapOr(env.MAX_TOKENS, HANDLER_DEFAULT_MAX_TOKENS)

max_tokens(r) == UnwrapOr(req[r].max_tokens, default_max_tokens)

enhanced_prompt(r) == req[r].message \o PROMPT_SUFFIX

ErrorResponse(text) == [status |-> 500, body |-> text, session_id |-> ""]

OkResponse(content, id) == [status |-> 200, body |-> content, session_id |-> id]

\* the request arrives; an absent session id is replaced by Uuid::new_v4(),
\* which may be any id
Chat(r) ==
    /\ proc = "serving"
    /\ pc[r] = "idle"
    /\ \E request \in ChatRequests, generated \in Uuids :
         /\ request.session_id.some => generated = "A"
         /\ req' = [req EXCEPT ![r] = request]
         /\ session_id' = [session_id EXCEPT ![r] =
                               IF request.session_id.some THEN request.session_id.v
                               ELSE generated]
    /\ pc' = [pc EXCEPT ![r] = "lock"]
    /\ UNCHANGED <<env, overflow_checks, proc, model, sessions, origin, lock, poisoned,
                   history_clone, outbound, reply, response, gen>>

\* data.sessions.lock(): blocks while another request holds the guard; a
\* poisoned mutex gives Err and the request answers 500
LockSessions(r) ==
    /\ pc[r] = "lock"
    /\ lock = 0
    /\ IF poisoned
       THEN /\ response' = [response EXCEPT ![r] = ErrorResponse(<<"Internal server error">>)]
            /\ pc' = [pc EXCEPT ![r] = "done"]
            /\ lock' = lock
       ELSE /\ lock' = r
            /\ pc' = [pc EXCEPT ![r] = "holding"]
            /\ response' = response
    /\ UNCHANGED <<env, overflow_checks, proc, model, sessions, origin, poisoned, req,
                   session_id, history_clone, outbound, reply, gen>>

\* the snapshot taken before the user turn is pushed
PushUserClonesFirst(r) ==
    /\ pc[r] = "holding"
    /\ LET id == session_id[r]
           history == Append(EntryOrEmpty(sessions, id), USER_PREFIX \o req[r].message)
       IN  /\ sessions' = Put(sessions, id, history)
           /\ origin' = Put(origin, id, Append(EntryOrEmpty(origin, id),
                                               [req |-> r, role |-> "user"]))
           /\ history_clone' = [history_clone EXCEPT ![r] = EntryOrEmpty(sessions, id)]
    /\ pc' = [pc EXCEPT ![r] = "cloned"]
    /\ UNCHANGED <<env, overflow_checks, proc, model, lock, poisoned, req, session_id,
                   outbound, reply, response, gen>>

\* history.push("user: " + message) on the session's entry, then
\* history.clone()
PushUser(r) ==
    /\ pc[r] = "holding"
    /\ LET id == session_id[r]
           history == Append(EntryOrEmpty(sessions, id), USER_PREFIX \o req[r].message)
       IN  /\ sessions' = Put(sessions, id, history)
           /\ origin' = Put(origin, id, Append(EntryOrEmpty(origin, id),
                                               [req |-> r, role |-> "user"]))
           /\ history_clone' = [history_clone EXCEPT ![r] = history]
    /\ pc' = [pc EXCEPT ![r] = "cloned"]
    /\ UNCHANGED <<env, overflow_checks, proc, model, lock, poisoned, req, session_id,
                   outbound, reply, response, gen>>

\* a panic while the guard is held (Vec or String growth past the capacity
\* limit): the guard is dropped in unwinding and poisons the mutex
PanicHolding(r) ==
    /\ pc[r] = "holding"
    /\ poisoned' = TRUE
    /\ lock' = 0
    /\ pc' = [pc EXCEPT ![r] = "panicked"]
    /\ UNCHANGED <<env, overflow_checks, proc, model, sessions, origin, req, session_id,
                   history_clone, outbound, reply, response, gen>>

\* drop(sessions) that leaves the guard alive
DropSessionsKeepsGuard(r) ==
    /\ pc[r] = "cloned"
    /\ pc' = [pc EXCEPT ![r] = "generate"]
    /\ UNCHANGED <<env, overflow_checks, proc, model, sessions, origin, lock, poisoned,
                   req, session_id, history_clone, outbound, reply, response, gen>>

\* drop(sessions)
DropSessions(r) ==
    /\ pc[r] = "cloned"
    /\ lock' = 0
    /\ pc' = [pc EXCEPT ![r] = "generate"]
    /\ UNCHANGED <<env, overflow_checks, proc, model, sessions, origin, poisoned, req,
                   session_id, history_clone, outbound, reply, response, gen>>

\* the truncation applied to the stored history instead of the snapshot
SendRequestTruncatesStore(r) ==
    /\ pc[r] = "generate"
    /\ LET payload == BuildPayload(model, overflow_checks, enhanced_prompt(r),
                                   max_tokens(r), history_clone[r])
       IN  /\ pc' = [pc EXCEPT ![r] = "awaiting"]
           /\ outbound' = [outbound EXCEPT ![r] = payload]
           /\ sessions' = [sessions EXCEPT ![session_id[r]] = payload.truncated_history]
    /\ UNCHANGED <<env, overflow_checks, proc, model, origin, lock, poisoned,
                   req, session_id, history_clone, reply, response, gen>>

\* generate_response up to client.post(..).send(): the payload is built from
\* the snapshot and sent, or the budget's sum panics
SendRequest(r) ==
    /\ pc[r] = "generate"
    /\ LET payload == BuildPayload(model, overflow_checks, enhanced_prompt(r),
                                   max_tokens(r), history_clone[r])
       IN  IF payload.panic
           THEN /\ pc' = [pc EXCEPT ![r] = "panicked"]
                /\ outbound' = outbound
           ELSE /\ pc' = [pc EXCEPT ![r] = "awaiting"]
                /\ outbound' = [outbound EXCEPT ![r] = payload]
    /\ UNCHANGED <<env, overflow_checks, proc, model, sessions, origin, lock, poisoned,
                   req, session_id, history_clone, reply, response, gen>>

\* the upstream call returns a reply whose content is extracted
UpstreamOk(r) ==
    /\ pc[r] = "awaiting"
    /\ \E content \in UpstreamContents :
         reply' = [reply EXCEPT ![r] = [kind |-> "ok", content |-> content]]
    /\ pc' = [pc EXCEPT ![r] = "relock"]
    /\ UNCHANGED <<env, overflow_checks, proc, model, sessions, origin, lock, poisoned,
                   req, session_id, history_clone, outbound, response, gen>>

\* the failed call that also takes the request's user turn back out
UpstreamFailsRollsBack(r) ==
    /\ pc[r] = "awaiting"
    /\ \E e \in UpstreamErrors :
         /\ reply' = [reply EXCEPT ![r] = [kind |-> "err", content |-> <<e>>]]
         /\ response' = [response EXCEPT ![r] =
                            ErrorResponse(<<"Failed to generate response", e>>)]
    /\ LET id == session_id[r]
           keep == { i \in 1..Len(origin[id]) : origin[id][i].req # r }
           Kept(i) == i \in keep
       IN  /\ sessions' = [sessions EXCEPT ![id] =
                              [j \in 1..Cardinality(keep) |->
                                  sessions[id][CHOOSE i \in keep :
                                      Cardinality({k \in keep : k <= i}) = j]]]
           /\ origin' = [origin EXCEPT ![id] = SelectSeq(origin[id], LAMBDA o : o.req # r)]
    /\ pc' = [pc EXCEPT ![r] = "done"]
    /\ UNCHANGED <<env, overflow_checks, proc, model, lock, poisoned, req, session_id,
                   history_clone, outbound, gen>>

\* the upstream call fails (transport error, non-success status, reply that
\* cannot be parsed): generate_response returns Err and chat answers 500
UpstreamFails(r) ==
    /\ pc[r] = "awaiting"
    /\ \E e \in UpstreamErrors :
         /\ reply' = [reply EXCEPT ![r] = [kind |-> "err", content |-> <<e>>]]
         /\ response' = [response EXCEPT ![r] =
                            ErrorResponse(<<"Failed to generate response", e>>)]
    /\ pc' = [pc EXCEPT ![r] = "done"]
    /\ UNCHANGED <<env, overflow_checks, proc, model, sessions, origin, lock, poisoned,
                   req, session_id, history_clone, outbound, gen>>

\* the second lock granted only in the order of the user turns of a session
RelockInArrivalOrder(r) ==
    /\ pc[r] = "relock"
    /\ lock = 0
    /\ ~\E r2 \in Requests \ {r} :
          /\ session_id[r2] = session_id[r]
          /\ pc[r2] \in {"cloned", "generate", "awaiting", "relock"}
          /\ \E i, j \in 1..Len(origin[session_id[r]]) :
                /\ i < j
                /\ origin[session_id[r]][i] = [req |-> r2, role |-> "user"]
                /\ origin[session_id[r]][j] = [req |-> r, role |-> "user"]
    /\ IF poisoned
       THEN /\ response' = [response EXCEPT ![r] =
                               OkResponse(reply[r].content, session_id[r])]
            /\ pc' = [pc EXCEPT ![r] = "done"]
            /\ lock' = lock
       ELSE /\ lock' = r
            /\ pc' = [pc EXCEPT ![r] = "holding2"]
            /\ response' = response
    /\ UNCHANGED <<env, overflow_checks, proc, model, sessions, origin, poisoned, req,
                   session_id, history_clone, outbound, reply, gen>>

\* a poisoned mutex at the second lock answered with an error
RelockFailsRequest(r) ==
    /\ pc[r] = "relock"
    /\ lock = 0
    /\ IF poisoned
       THEN /\ response' = [response EXCEPT ![r] = ErrorResponse(<<"Internal server error">>)]
            /\ pc' = [pc EXCEPT ![r] = "done"]
            /\ lock' = lock
       ELSE /\ lock' = r
            /\ pc' = [pc EXCEPT ![r] = "holding2"]
            /\ response' = response
    /\ UNCHANGED <<env, overflow_checks, proc, model, sessions, origin, poisoned, req,
                   session_id, history_clone, outbound, reply, gen>>

\* if let Ok(mut sessions) = data.sessions.lock(): a poisoned mutex is logged
\* and the reply is returned all the same
RelockSessions(r) ==
    /\ pc[r] = "relock"
    /\ lock = 0
    /\ IF poisoned
       THEN /\ response' = [response EXCEPT ![r] =
                               OkResponse(reply[r].content, session_id[r])]
            /\ pc' = [pc EXCEPT ![r] = "done"]
            /\ lock' = lock
       ELSE /\ lock' = r
            /\ pc' = [pc EXCEPT ![r] = "holding2"]
            /\ response' = response
    /\ UNCHANGED <<env, overflow_checks, proc, model, sessions, origin, poisoned, req,
                   session_id, history_clone, outbound, reply, gen>>

\* the assistant turn written over the store as snapshot plus reply
PushAssistantFromSnapshot(r) ==
    /\ pc[r] = "holding2"
    /\ LET id == session_id[r]
           n == Len(history_clone[r])
       IN  /\ sessions' = [sessions EXCEPT ![id] =
                              Append(history_clone[r], ASSISTANT_PREFIX \o reply[r].content)]
           /\ origin' = [origin EXCEPT ![id] =
                            Append(SubSeq(origin[id], 1, n), [req |-> r, role |-> "assistant"])]
    /\ lock' = 0
    /\ response' = [response EXCEPT ![r] = OkResponse(reply[r].content, session_id[r])]
    /\ pc' = [pc EXCEPT ![r] = "done"]
    /\ UNCHANGED <<env, overflow_checks, proc, model, poisoned, req, session_id,
                   history_clone, outbound, reply, gen>>

\* the assistant turn pushed on whichever session the map yields first
PushAssistantAnySession(r) ==
    /\ pc[r] = "holding2"
    /\ \E id \in DOMAIN sessions :
         /\ sessions' = [sessions EXCEPT ![id] =
                            Append(@, ASSISTANT_PREFIX \o reply[r].content)]
         /\ origin' = [origin EXCEPT ![id] = Append(@, [req |-> r, role |-> "assistant"])]
    /\ lock' = 0
    /\ response' = [response EXCEPT ![r] = OkResponse(reply[r].content, session_id[r])]
    /\ pc' = [pc EXCEPT ![r] = "done"]
    /\ UNCHANGED <<env, overflow_checks, proc, model, poisoned, req, session_id,
                   history_clone, outbound, reply, gen>>

\* sessions.get_mut(&session_id) and history.push("assistant: " + response);
\* the guard goes out of scope and chat answers 200
PushAssistant(r) ==
    /\ pc[r] = "holding2"
    /\ LET id == session_id[r]
       IN  IF id \in DOMAIN sessions
           THEN /\ sessions' = [sessions EXCEPT ![id] =
                                   Append(@, ASSISTANT_PREFIX \o reply[r].content)]
                /\ origin' = [origin EXCEPT ![id] =
                                 Append(@, [req |-> r, role |-> "assistant"])]
           ELSE UNCHANGED <<sessions, origin>>
    /\ lock' = 0
    /\ response' = [response EXCEPT ![r] = OkResponse(reply[r].content, session_id[r])]
    /\ pc' = [pc EXCEPT ![r] = "done"]
    /\ UNCHANGED <<env, overflow_checks, proc, model, poisoned, req, session_id,
                   history_clone, outbound, reply, gen>>

Next ==
    \/ New
    \/ \E r \in Requests :
         \/ Chat(r)
         \/ LockSessions(r)
         \/ PushUser(r)
         \/ PanicHolding(r)
         \/ DropSessions(r)
         \/ SendRequest(r)
         \/ UpstreamOk(r)
         \/ UpstreamFails(r)
         \/ RelockSessions(r)
         \/ PushAssistant(r)

Spec == Init /\ [][Next]_vars

\* ------------------------------------------------------------------------
\* Scheduling: every step of a request that is enabled is eventually taken,
\* and every upstream call returns except those of the requests in MayHang
\* ------------------------------------------------------------------------
MayHang == {1}

Fairness ==
    \A r \in Requests :
        /\ WF_vars(LockSessions(r))
        /\ WF_vars(PushUser(r))
        /\ WF_vars(DropSessions(r))
        /\ WF_vars(SendRequest(r))
        /\ WF_vars(RelockSessions(r))
        /\ WF_vars(PushAssistant(r))
        /\ r \notin MayHang => WF_vars(UpstreamOk(r) \/ UpstreamFails(r))

SpecLive == Init /\ [][Next]_vars /\ Fairness

\* ========================================================================
\* Properties of generate_response (checked under SpecGen)
\* ========================================================================
RECURSIVE SumEstimates(_)
SumEstimates(turns) ==
    IF turns = <<>> THEN 0
    ELSE estimate_tokens(Head(turns)) + SumEstimates(Tail(turns))

\* the k most recent turns of h, oldest first
SuffixOf(h, k) == SubSeq(h, Len(h) - k + 1, Len(h))

Fits(h, k, available) == SumEstimates(SuffixOf(h, k)) <= available

HasRolePrefix(turn) == StartsWith(turn, USER_PREFIX) \/ StartsWith(turn, ASSISTANT_PREFIX)

RoleOf(turn) == IF StartsWith(turn, USER_PREFIX) THEN "user" ELSE "assistant"

Sent == gen.called /\ ~gen.payload.panic

\* C2: the turns the truncation loop retains are exactly the longest suffix of
\* the snapshot, in chronological order, whose summed estimate is at most
\* available_history_tokens; the next older turn, if any, would exceed it.
C2_RetainedIsLongestFittingSuffix ==
    Sent =>
        LET h == gen.history
            a == gen.payload.available_history_tokens
            kept == gen.payload.truncated_history
            k == Len(kept)
        IN  /\ k <= Len(h)
            /\ kept = SuffixOf(h, k)
            /\ Fits(h, k, a)
            /\ k < Len(h) => ~Fits(h, k + 1, a)
            /\ \A j \in 0..Len(h) : Fits(h, j, a) => j <= k

\* a call in which some but not all turns were retained
C2_Witness ==
    /\ Sent
    /\ Len(gen.payload.truncated_history) = 2
    /\ Len(gen.history) = 3

\* C6: the adjusted max_tokens lies in [min_tokens, max_tokens], is the
\* requested value when that already lies in the interval, and is the value
\* sent upstream and embedded in the system message.
C6_AdjustedIsClamped ==
    gen.called =>
        LET adj == gen.payload.adjusted_max_tokens
        IN  /\ model.min_tokens <= adj
            /\ adj <= model.max_tokens
            /\ (model.min_tokens <= gen.max_tokens /\ gen.max_tokens <= model.max_tokens)
                   => adj = gen.max_tokens
            /\ ~gen.payload.panic =>
                   /\ gen.payload.max_tokens = adj
                   /\ gen.payload.messages[1].content = <<"SYSTEM_TEXT", adj>>

\* a request above the configured maximum was capped and sent
C6_Witness ==
    /\ Sent
    /\ gen.max_tokens > model.max_tokens
    /\ gen.payload.max_tokens = model.max_tokens

\* the four start-up invariants, over the integers
LimitsValid(c) ==
    /\ c.min_tokens <= c.max_tokens
    /\ c.max_tokens <= c.max_context_window
    /\ c.system_message_reserve + c.response_reserve < c.max_context_window
    /\ c.max_context_window - (c.system_message_reserve + c.response_reserve)
           >= MIN_MESSAGE_SPACE

\* C7: for limits that satisfy the start-up invariants, available_history_tokens
\* is max_context_window minus the two reserves and the prompt's estimate,
\* floored at zero, and computing it never panics.
C7_AvailableIsFlooredDifference ==
    (gen.called /\ LimitsValid(model)) =>
        LET needed == model.system_message_reserve + model.response_reserve
                          + estimate_tokens(gen.prompt)
        IN  /\ ~gen.payload.panic
            /\ gen.payload.available_history_tokens
                   = IF model.max_context_window >= needed
                     THEN model.max_context_window - needed ELSE 0

\* C8: when the prompt's estimate fits in the space left by the reserves, the
\* reserves, the prompt and the retained turns together fit the context window.
C8_ContextWindowBound ==
    (gen.called /\ estimate_tokens(gen.prompt)
                     <= model.max_context_window
                          - (model.system_message_reserve + model.response_reserve))
    => /\ ~gen.payload.panic
       /\ model.system_message_reserve + model.response_reserve
              + estimate_tokens(gen.prompt)
              + SumEstimates(gen.payload.truncated_history)
          <= model.max_context_window

\* the window is filled exactly while an older turn is dropped
C8_Witness ==
    /\ Sent
    /\ gen.payload.truncated_history # <<>>
    /\ Len(gen.payload.truncated_history) < Len(gen.history)
    /\ model.system_message_reserve + model.response_reserve
           + estimate_tokens(gen.prompt)
           + SumEstimates(gen.payload.truncated_history)
       = model.max_context_window

\* C9: the message list is the system message, then the retained turns that
\* carry a role prefix, as that role and in chronological order, then a user
\* message holding the prompt; the system message is the only one of its role
\* and an empty history gives exactly two messages.
C9_MessageListShape ==
    Sent =>
        LET msgs == gen.payload.messages
            retained == SuffixOf(gen.history, Len(gen.payload.truncated_history))
            tagged == SelectSeq(retained, HasRolePrefix)
        IN  /\ Len(msgs) = Len(tagged) + 2
            /\ msgs[1].role = "system"
            /\ \A i \in 2..Len(msgs) : msgs[i].role # "system"
            /\ msgs[Len(msgs)] = Message("user", gen.prompt)
            /\ \A i \in 1..Len(tagged) :
                   /\ msgs[i + 1].role = RoleOf(tagged[i])
                   /\ msgs[i + 1].content
                          = SubSeq(tagged[i], Len(tagged[i]) - Len(msgs[i + 1].content) + 1,
                                   Len(tagged[i]))
            /\ gen.history = <<>> => Len(msgs) = 2

\* a user turn, then an assistant turn, then the prompt
C9_Witness ==
    /\ Sent
    /\ Len(gen.payload.messages) = 4
    /\ gen.payload.messages[2].role = "user"
    /\ gen.payload.messages[3].role = "assistant"

h_without(h, i) == SubSeq(h, 1, i - 1) \o SubSeq(h, i + 1, Len(h))

\* C10: an entry with neither role prefix is left out of the message list
\* without an error, and the well-formed turns retained are the ones that
\* would be retained if that entry were not in the history.
C10_MalformedEntryCostsNothing ==
    Sent =>
        \A i \in 1..Len(gen.history) :
            ~HasRolePrefix(gen.history[i]) =>
                SelectSeq(gen.payload.truncated_history, HasRolePrefix)
                    = SelectSeq(truncated_history(h_without(gen.history, i),
                                                  gen.payload.available_history_tokens),
                                HasRolePrefix)

\* C11: LlamaModel::new succeeds exactly when the limits read satisfy the four
\* start-up invariants over the integers, whatever values the word can hold;
\* otherwise the process ends before it serves.
C11_NewAcceptsExactlyValidLimits ==
    proc # "starting" =>
        /\ LimitsValid(ReadLimits(env)) => proc = "serving"
        /\ ~LimitsValid(ReadLimits(env)) => proc \in {"exited", "panicked"}

\* C12: limits accepted at start-up are all positive.
C12_AcceptedLimitsArePositive ==
    proc = "serving" =>
        /\ model.max_context_window > 0
        /\ model.system_message_reserve > 0
        /\ model.response_reserve > 0
        /\ model.min_tokens > 0
        /\ model.max_tokens > 0

\* the texts a call estimates, and the empty text
EstimatedTexts ==
    { gen.prompt, <<>> } \cup { gen.history[i] : i \in 1..Len(gen.history) }

\* C13: the estimate of a text is its length divided by four, rounded down,
\* and at least 1; a text no longer than another has no larger an estimate.
C13_EstimateIsFlooredQuarter ==
    gen.called =>
        \A a \in EstimatedTexts :
            LET e == estimate_tokens(a)
            IN  /\ e >= 1
                /\ Len(a) < CHARS_PER_TOKEN => e = 1
                /\ Len(a) >= CHARS_PER_TOKEN =>
                       (CHARS_PER_TOKEN * e <= Len(a) /\ Len(a) < CHARS_PER_TOKEN * (e + 1))
                /\ \A b \in EstimatedTexts :
                       Len(a) <= Len(b) => e <= estimate_tokens(b)

\* a call with a prompt under four bytes and turns of different estimates
C13_Witness ==
    /\ gen.called
    /\ Len(gen.prompt) < CHARS_PER_TOKEN
    /\ Len(gen.history) = 2
    /\ estimate_tokens(gen.history[1]) < estimate_tokens(gen.history[2])

\* C20: for limits that satisfy the start-up invariants, a prompt whose
\* estimate takes all the space after the reserves leaves a budget of 0, no
\* turn is retained and the request is sent with the system message and the
\* prompt alone.
C20_FullPromptSendsTwoMessages ==
    (gen.called /\ LimitsValid(model)
       /\ estimate_tokens(gen.prompt)
              >= model.max_context_window
                   - (model.system_message_reserve + model.response_reserve))
    => /\ ~gen.payload.panic
       /\ gen.payload.available_history_tokens = 0
       /\ gen.payload.truncated_history = <<>>
       /\ gen.payload.messages
              = <<SystemMessage(gen.payload.adjusted_max_tokens),
                  Message("user", gen.prompt)>>

\* ========================================================================
\* Properties of the chat handler (checked under Spec)
\* ========================================================================
\* request r is inside generate_response: building the payload or suspended
\* in the upstream call
InUpstreamCall(r) == pc[r] \in {"generate", "awaiting"}

\* the turns that request r pushed on session s with the given role
TurnsBy(r, s, role) ==
    IF s \in DOMAIN origin
    THEN { i \in 1..Len(origin[s]) : origin[s][i] = [req |-> r, role |-> role] }
    ELSE {}

\* every recorded origin is the turn that request would write
OriginMatchesStore ==
    \A s \in DOMAIN sessions :
        /\ Len(origin[s]) = Len(sessions[s])
        /\ \A i \in 1..Len(sessions[s]) :
               sessions[s][i] = IF origin[s][i].role = "user"
                                THEN USER_PREFIX \o req[origin[s][i].req].message
                                ELSE ASSISTANT_PREFIX \o reply[origin[s][i].req].content

\* C1: no request is in the upstream call while it holds the sessions mutex;
\* the guard taken to append the user turn and clone the history is released
\* before the call starts and is taken again only after the call has returned.
C1_NoLockAcrossUpstreamCall ==
    \A r \in Requests :
        /\ InUpstreamCall(r) => lock # r
        /\ lock = r => pc[r] \in {"holding", "cloned", "holding2"}
        /\ pc[r] = "holding2" => reply[r].kind = "ok"

\* one request is suspended in the upstream call while another holds the guard
C1_Witness ==
    \E r1, r2 \in Requests :
        /\ r1 # r2
        /\ pc[r1] = "awaiting"
        /\ lock = r2

\* C3: every turn stored in a session's history, and every turn of a snapshot
\* cloned from it, was pushed by a request that carries that session's id.
C3_SessionIsolation ==
    /\ OriginMatchesStore
    /\ \A s \in DOMAIN sessions :
           \A i \in 1..Len(origin[s]) : session_id[origin[s][i].req] = s
    /\ \A r \in Requests :
           history_clone[r] # <<>> =>
               /\ session_id[r] \in DOMAIN sessions
               /\ Len(history_clone[r]) <= Len(sessions[session_id[r]])
               /\ history_clone[r]
                      = SubSeq(sessions[session_id[r]], 1, Len(history_clone[r]))

\* two requests on different sessions have both stored an assistant turn
C3_Witness ==
    \E r1, r2 \in Requests :
        /\ session_id[r1] = "A" /\ session_id[r2] = "B"
        /\ TurnsBy(r1, "A", "assistant") # {}
        /\ TurnsBy(r2, "B", "assistant") # {}

\* C4: a request whose upstream call failed has answered with an error, its
\* session's history holds exactly one entry of that request, its user turn
\* "user: " + message, and no assistant turn of it.
C4_FailureKeepsUserTurn ==
    \A r \in Requests :
        reply[r].kind = "err" =>
            /\ pc[r] = "done"
            /\ response[r].status = 500
            /\ OriginMatchesStore
            /\ Cardinality(TurnsBy(r, session_id[r], "user")) = 1
            /\ TurnsBy(r, session_id[r], "assistant") = {}
            /\ \A s \in DOMAIN origin \ {session_id[r]} :
                   TurnsBy(r, s, "user") = {} /\ TurnsBy(r, s, "assistant") = {}

\* a request failed on a non-success status; its user turn is the third
\* entry of a history that another request wrote to first
C4_Witness ==
    \E r \in Requests :
        /\ reply[r] = [kind |-> "err", content |-> <<"status">>]
        /\ Len(sessions[session_id[r]]) = 3
        /\ origin[session_id[r]][3] = [req |-> r, role |-> "user"]

\* C5: while the lock is obtainable, every completed request has exactly one
\* user turn in its session's history, exactly one assistant turn if it
\* succeeded and none if it failed, and the assistant turn comes after the
\* user turn.
C5_NoTurnLost ==
    ~poisoned =>
        \A r \in Requests :
            pc[r] = "done" =>
                LET users == TurnsBy(r, session_id[r], "user")
                    assistants == TurnsBy(r, session_id[r], "assistant")
                IN  /\ OriginMatchesStore
                    /\ Cardinality(users) = 1
                    /\ Cardinality(assistants) = IF reply[r].kind = "ok" THEN 1 ELSE 0
                    /\ response[r].status = IF reply[r].kind = "ok" THEN 200 ELSE 500
                    /\ \A u \in users, a \in assistants : u < a

\* two successful requests on one session, interleaved: user, user,
\* assistant, assistant
C5_Witness ==
    \E r1, r2 \in Requests :
        /\ r1 # r2
        /\ pc[r1] = "done" /\ pc[r2] = "done"
        /\ session_id[r1] = session_id[r2]
        /\ origin[session_id[r1]]
               = << [req |-> r1, role |-> "user"], [req |-> r2, role |-> "user"],
                    [req |-> r2, role |-> "assistant"], [req |-> r1, role |-> "assistant"] >>

IsPrefix(a, b) == Len(a) <= Len(b) /\ SubSeq(b, 1, Len(a)) = a

\* C14: the stored histories are append-only: no step removes a session, and
\* every session's history before a step is a prefix of its history after it
\* (the truncation for the payload included).
C14_HistoryAppendOnly ==
    [][\A s \in DOMAIN sessions :
           /\ s \in DOMAIN sessions'
           /\ IsPrefix(sessions[s], sessions'[s])]_vars

\* a request sent a payload that dropped a turn of its snapshot, and the store
\* still holds the whole snapshot
C14_Witness ==
    \E r \in Requests :
        /\ pc[r] = "awaiting"
        /\ Len(outbound[r].truncated_history) < Len(history_clone[r])
        /\ IsPrefix(history_clone[r], sessions[session_id[r]])

\* C15: whatever the requests in MayHang do, every other request that has
\* arrived and does not itself panic ends with a response.
C15_HungCallStallsOnlyItself ==
    \A r \in Requests \ MayHang :
        (pc[r] \notin {"idle", "done", "panicked"}) ~> (pc[r] \in {"done", "panicked"})

\* request 1 is suspended in its upstream call and another request on the
\* same session has passed both locks and answered 200
C15_Witness ==
    \E r1 \in MayHang, r2 \in Requests \ MayHang :
        /\ pc[r1] = "awaiting"
        /\ session_id[r1] = session_id[r2]
        /\ pc[r2] = "done"
        /\ response[r2].status = 200
        /\ TurnsBy(r2, session_id[r2], "assistant") # {}

C17_PoisonedRelockStillAnswers ==
    [][\A r \in Requests :
           (pc[r] = "relock" /\ poisoned /\ pc'[r] # "relock") =>
               /\ pc'[r] = "done"
               /\ response'[r] = OkResponse(reply[r].content, session_id[r])
               /\ sessions' = sessions]_vars

\* a successful request answered 200 and its assistant turn is not stored
C17_Witness ==
    \E r \in Requests :
        /\ pc[r] = "done"
        /\ reply[r].kind = "ok"
        /\ response[r] = OkResponse(reply[r].content, session_id[r])
        /\ TurnsBy(r, session_id[r], "assistant") = {}

\* request r has pushed its user turn and cloned the history
Snapshotted(r) ==
    \/ pc[r] \in {"cloned", "generate", "awaiting", "relock", "holding2"}
    \/ pc[r] = "done" /\ reply[r].kind # "none"

\* C18: the snapshot a request passes to generate_response is not empty and
\* ends with the request's own user turn; the payload ends with the prompt,
\* and the retained turns, if any, end with that user turn.
C18_SnapshotEndsWithOwnTurn ==
    \A r \in Requests :
        /\ Snapshotted(r) =>
               /\ history_clone[r] # <<>>
               /\ history_clone[r][Len(history_clone[r])] = USER_PREFIX \o req[r].message
        /\ pc[r] = "awaiting" =>
               LET kept == outbound[r].truncated_history
                   msgs == outbound[r].messages
               IN  /\ msgs[Len(msgs)] = Message("user", enhanced_prompt(r))
                   /\ kept # <<>> => kept[Len(kept)] = USER_PREFIX \o req[r].message

\* a request sent a snapshot of three turns: the message list holds its own
\* message as a history turn and again as the prompt
C18_Witness ==
    \E r \in Requests :
        /\ pc[r] = "awaiting"
        /\ Len(history_clone[r]) = 3
        /\ Len(outbound[r].messages) = 5
        /\ outbound[r].messages[4].role = "user"

RolePrefix(role) == IF role = "user" THEN USER_PREFIX ELSE ASSISTANT_PREFIX

\* C19: every retained turn is sent with its role and with exactly one role
\* prefix removed: the stored turn is the prefix of the role followed by the
\* content sent.
C19_RolePrefixRoundTrip ==
    \A r \in Requests :
        pc[r] = "awaiting" =>
            LET kept == outbound[r].truncated_history
                msgs == outbound[r].messages
            IN  /\ Len(msgs) = Len(kept) + 2
                /\ \A i \in 1..Len(kept) :
                       kept[i] = RolePrefix(msgs[i + 1].role) \o msgs[i + 1].content

====
